---- MODULE Spec2Model ----
(***************************************************************************)
(* Product content generation workflow (LangGraph StateGraph) of           *)
(* src/workflow/product_workflow.py with its seven agents.                 *)
(*                                                                         *)
(* The graph is executed in supersteps: every stage triggered in a step    *)
(* reads the state as it was when the step began, the stages of one step   *)
(* run concurrently, and their partial updates are merged into the state   *)
(* when all of them have returned.  No key of ProductState carries a       *)
(* reducer (state/product_state_schema.py declares plain types), so every  *)
(* key is a last-value slot: an update replaces the value, and two updates *)
(* of one key in the same step are rejected by the graph runtime           *)
(* (InvalidUpdateError), which ends the run with an exception.  An         *)
(* exception that leaves a stage ends the run as well.                     *)
(*                                                                         *)
(* Values are abstracted: an optional slot is <<>> (None) or <<v>>; a      *)
(* product records which of its fields are non-empty; a backend response   *)
(* is a record whose kind says what the agent's parsing makes of it.       *)
(***************************************************************************)
EXTENDS Integers, Sequences, FiniteSets, TLC

VARIABLES state, step, active, status, pending, execs, finished,
          calls, first, outcome, pc, raisedBy,
          tool, tgiven, targs, tout, tprev

\* The variables of a run of the workflow.
flowvars == <<state, step, active, status, pending, execs, finished,
              calls, first, outcome, pc, raisedBy>>

\* The variables of a direct call of one of the pure functions: the function,
\* the arguments as given, the argument objects after the call, what the
\* call returned, and what the call before it returned when it was given
\* the same objects.
toolvars == <<tool, tgiven, targs, tout, tprev>>

vars == <<state, step, active, status, pending, execs, finished,
          calls, first, outcome, pc, raisedBy,
          tool, tgiven, targs, tout, tprev>>

(***************************************************************************)
(* Generic helpers                                                         *)
(***************************************************************************)
None == <<>>

Some(v) == <<v>>

Range(s) == {s[i] : i \in 1..Len(s)}

Min(a, b) == IF a <= b THEN a ELSE b

Prefix(s, n) == SubSeq(s, 1, Min(n, Len(s)))

(***************************************************************************)
(* The graph                                                               *)
(***************************************************************************)
Stages ==
  {"data_parser", "content_blocks", "question_generator", "faq_generator",
   "product_page_generator", "comparison_generator", "json_output"}

\* The edge list with one more edge, from the entry stage straight to the
\* FAQ stage.
Edges_shortcut ==
  {<<"data_parser", "content_blocks">>,
   <<"data_parser", "question_generator">>,
   <<"data_parser", "faq_generator">>,
   <<"content_blocks", "faq_generator">>,
   <<"content_blocks", "product_page_generator">>,
   <<"question_generator", "faq_generator">>,
   <<"content_blocks", "comparison_generator">>,
   <<"faq_generator", "json_output">>,
   <<"product_page_generator", "json_output">>,
   <<"comparison_generator", "json_output">>}

Edges ==
  {<<"data_parser", "content_blocks">>,
   <<"data_parser", "question_generator">>,
   <<"content_blocks", "faq_generator">>,
   <<"content_blocks", "product_page_generator">>,
   <<"question_generator", "faq_generator">>,
   <<"content_blocks", "comparison_generator">>,
   <<"faq_generator", "json_output">>,
   <<"product_page_generator", "json_output">>,
   <<"comparison_generator", "json_output">>}

EntryPoint == "data_parser"

\* The stages triggered by the completion of the stages in S.
Triggered(S) == {n \in Stages : \E p \in S : <<p, n>> \in Edges}

(***************************************************************************)
(* Data                                                                    *)
(***************************************************************************)
RequiredFields ==
  {"product_name", "concentration", "skin_type", "key_ingredients",
   "benefits", "how_to_use", "price"}

BlockNames == {"benefits", "usage", "ingredients", "safety"}

\* A product: TRUE where the field is non-empty (a non-empty list or string).
Product(b, u, i, s, t) ==
  [benefits |-> b, how_to_use |-> u, key_ingredients |-> i,
   side_effects |-> s, skin_type |-> t]

FullProduct == Product(TRUE, TRUE, TRUE, TRUE, TRUE)

\* The products tried: every field filled, no side effects, benefits only
\* (and no skin type), nothing filled.
Products ==
  {FullProduct,
   Product(TRUE, TRUE, TRUE, FALSE, TRUE),
   Product(TRUE, FALSE, FALSE, FALSE, FALSE),
   Product(FALSE, FALSE, FALSE, FALSE, FALSE)}

\* Raw input records.  required: whether the seven required fields are all
\* present and non-null ("ok"), one is absent ("missing") or null ("null");
\* side_effects: whether the key is present; typed: whether every value has
\* the type the Product model declares; content: the record's values.
RawRecord(e, r, s, t, c) ==
  [empty |-> e, required |-> r, side_effects |-> s, typed |-> t, content |-> c]

EmptyRecord == RawRecord(TRUE, "missing", FALSE, TRUE, FullProduct)

\* The inputs tried: the empty record, the complete records, a complete
\* record without the side_effects key, one that lacks a required field.
RawInputs ==
  {EmptyRecord}
  \cup {RawRecord(FALSE, "ok", TRUE, TRUE, p) : p \in Products}
  \cup {RawRecord(FALSE, "ok", FALSE, TRUE, FullProduct),
        RawRecord(FALSE, "missing", TRUE, TRUE, FullProduct)}

(***************************************************************************)
(* ProductState and partial updates                                        *)
(***************************************************************************)
Slots ==
  {"raw_product_data", "parsed_product", "data_parsed", "content_blocks",
   "content_blocks_generated", "questions", "questions_generated",
   "question_count", "faq_page", "faq_generated", "product_page",
   "product_page_generated", "comparison_page", "product_b_data",
   "comparison_generated", "files_created", "json_output_complete", "errors"}

initial_state(raw) ==
  [raw_product_data |-> raw,
   parsed_product |-> None,
   data_parsed |-> FALSE,
   content_blocks |-> None,
   content_blocks_generated |-> FALSE,
   questions |-> None,
   questions_generated |-> FALSE,
   question_count |-> 0,
   faq_page |-> None,
   faq_generated |-> FALSE,
   product_page |-> None,
   product_page_generated |-> FALSE,
   comparison_page |-> None,
   product_b_data |-> None,
   comparison_generated |-> FALSE,
   files_created |-> None,
   json_output_complete |-> FALSE,
   errors |-> <<>>]

\* What a stage hands back: the keys of the dictionary it returns with their
\* values (vals is a whole state record, only the keys in keys are written),
\* or an exception; the backend responses it consumed; how it ended.
Returned(keys, vals, tr, out) ==
  [raises |-> FALSE, keys |-> keys, vals |-> vals, trace |-> tr, outcome |-> out]

Raised(s, tr) ==
  [raises |-> TRUE, keys |-> {}, vals |-> s, trace |-> tr, outcome |-> "raised"]

NoUpdate(s) == [keys |-> {}, vals |-> s]

\* An entry of errors: the text, and for the message of json_output the
\* names of the missing pages.
Msg(text) == [text |-> text, names |-> <<>>]

Kinds(rs) == [i \in 1..Len(rs) |-> rs[i].kind]

(***************************************************************************)
(* DataParserAgent                                                         *)
(***************************************************************************)
ParserResponses ==
  {[kind |-> k, product |-> FullProduct] :
     k \in {"error", "tool_calls", "bad_tool_call", "bad"}}
  \cup {[kind |-> "good", product |-> FullProduct]}

\* validate_data_structure: every required field present and not None.
validate_data_structure(raw) == raw.required = "ok"

\* Product(**raw_data): the model has eight required, typed fields.
ProductAccepts(raw) == raw.required = "ok" /\ raw.side_effects /\ raw.typed

ParseOk(p, rs) == [ok |-> TRUE, product |-> p, trace |-> Kinds(rs)]

ParseFail(rs) == [ok |-> FALSE, product |-> FullProduct, trace |-> Kinds(rs)]

\* The last-resort call: its text must parse and build a Product.
parse_last_resort(used, r3) ==
  IF r3.kind = "good"
  THEN ParseOk(r3.product, used \o <<r3>>)
  ELSE ParseFail(used \o <<r3>>)

\* The text of the agent's answer is parsed; any exception goes to the
\* last-resort call.
parse_result_text(used, text, r3) ==
  IF text.kind = "good"
  THEN ParseOk(text.product, used)
  ELSE parse_last_resort(used, r3)

parse_product_data(raw, r1, r2, r3) ==
  IF validate_data_structure(raw) /\ ProductAccepts(raw)
  THEN ParseOk(raw.content, <<>>)
  ELSE CASE r1.kind = "error" -> ParseFail(<<r1>>)
         [] r1.kind = "bad_tool_call" -> ParseFail(<<r1>>)
         [] r1.kind = "tool_calls" ->
              IF r2.kind = "error"
              THEN ParseFail(<<r1, r2>>)
              ELSE parse_result_text(<<r1, r2>>, r2, r3)
         [] OTHER -> parse_result_text(<<r1>>, r1, r3)

DataParser_process(s, r1, r2, r3) ==
  IF s.raw_product_data.empty
  THEN Returned({"errors"},
                [s EXCEPT !.errors = <<Msg("No product data provided")>>],
                <<>>, "skipped")
  ELSE LET res == parse_product_data(s.raw_product_data, r1, r2, r3)
       IN IF res.ok
          THEN Returned({"parsed_product", "data_parsed"},
                        [s EXCEPT !.parsed_product = Some(res.product),
                                  !.data_parsed = TRUE],
                        res.trace, "ok")
          ELSE Raised(s, res.trace)

(***************************************************************************)
(* ContentBlocksAgent                                                      *)
(***************************************************************************)
\* analyze_content_needs: a block is needed when its field is non-empty.
analyze_content_needs(p) ==
  {b \in BlockNames :
     \/ b = "benefits" /\ p.benefits
     \/ b = "usage" /\ p.how_to_use
     \/ b = "ingredients" /\ p.key_ingredients
     \/ b = "safety" /\ p.side_effects}

\* The backend is asked only when no block was generated; its answer may
\* call analyze_content_needs with arguments of its own (needs).
BlocksResponses ==
  {[kind |-> k, needs |-> {}] : k \in {"error", "text", "bad_tool_call"}}
  \cup {[kind |-> "tool_calls", needs |-> n] : n \in {{}, {"benefits"}}}

generate_all_blocks(p, r) ==
  LET blocks == analyze_content_needs(p)
  IN IF blocks # {}
     THEN [ok |-> TRUE, blocks |-> blocks, trace |-> <<>>]
     ELSE IF r.kind \in {"error", "bad_tool_call"}
          THEN [ok |-> FALSE, blocks |-> {}, trace |-> <<r.kind>>]
          ELSE LET after == IF r.kind = "tool_calls" THEN r.needs ELSE {}
               IN [ok |-> TRUE,
                   blocks |-> IF after = {} THEN BlockNames ELSE after,
                   trace |-> <<r.kind>>]

ContentBlocks_process(s, r) ==
  IF s.parsed_product = None
  THEN Returned({"errors"},
                [s EXCEPT !.errors =
                   <<Msg("No product data available for content block generation")>>],
                <<>>, "skipped")
  ELSE LET res == generate_all_blocks(s.parsed_product[1], r)
       IN IF res.ok
          THEN Returned({"content_blocks", "content_blocks_generated"},
                        [s EXCEPT !.content_blocks = Some(res.blocks),
                                  !.content_blocks_generated = TRUE],
                        res.trace, "ok")
          ELSE Raised(s, res.trace)

(***************************************************************************)
(* Questions                                                               *)
(***************************************************************************)
min_questions == 15

\* The slack added to min_questions where the code subtracts it: the list
\* must be longer than asked for.
question_slack_sign == 0 - 3

\* generate_categorized_questions accepts a list that is at most this much
\* shorter than min_questions without asking again.
question_slack == 3

faq_count == 5

answer_min_len == 5

Categories == <<"Informational", "Safety", "Usage", "Purchase", "Comparison">>

\* A question entry.  q: the question text (0: absent or empty); category:
\* "" when the entry has none; answer: the length of the answer text;
\* tool_cat: what categorize_question makes of the text; tmpl_cat: what the
\* keyword cascade of FAQTemplate makes of it.
Item(q, c, a, tc) ==
  [q |-> q, category |-> c, answer |-> a, tool_cat |-> tc, tmpl_cat |-> tc]

CatOf(i) == Categories[((i - 1) % Len(Categories)) + 1]

\* A backend list of n entries: "complete" entries carry question, category
\* and answer, "bare" entries only the question, "no_question" entries lack
\* the question text.
GenList(n, shape) ==
  [i \in 1..n |->
     CASE shape = "complete" -> Item(i, CatOf(i), 20, CatOf(i))
       [] shape = "bare" -> Item(i, "", 0, CatOf(i))
       [] OTHER -> Item(0, CatOf(i), 20, CatOf(i))]

\* The lists tried: too few complete entries, just enough bare entries, the
\* number asked for.
\* The length of a list that is too short for an FAQ page.
FewQuestions == 3

QuestionLists ==
  {GenList(FewQuestions, "complete"),
   GenList(min_questions - question_slack, "bare"),
   GenList(min_questions, "complete")}

QuestionResponses ==
  {[kind |-> k, qs |-> <<>>] : k \in {"error", "bad"}}
  \cup {[kind |-> "list", qs |-> l] : l \in QuestionLists}

\* generate_answer_for_question asks the backend once per entry: it raises,
\* or returns a text of the given length.
AnswerResponses ==
  {[kind |-> "error", len |-> 0], [kind |-> "text", len |-> 0],
   [kind |-> "text", len |-> 30]}

\* _generate_questions_direct_llm: the list in the response, [] when the
\* text cannot be parsed as a list.
direct_llm_list(r) == IF r.kind = "list" THEN r.qs ELSE <<>>

\* An entry with a non-empty question, category and answer.
SchemaComplete(it) == it.q # 0 /\ it.category # "" /\ it.answer > 0

\* What a response counts as in the record of the run: a list of
\* min_questions complete entries is told from the other lists.
QuestionClass(r) ==
  IF /\ r.kind = "list"
     /\ Len(r.qs) = min_questions
     /\ \A i \in 1..Len(r.qs) : SchemaComplete(r.qs[i])
  THEN "list_valid"
  ELSE r.kind

NeedsAnswer(it) == it.answer = 0 \/ it.answer < answer_min_len

\* The validation loop over questions[:min_questions]: entries without a
\* question are dropped, a missing category is computed, a missing or short
\* answer is asked from the backend.
RECURSIVE validate_questions(_, _)
validate_questions(qs, a) ==
  IF qs = <<>>
  THEN [ok |-> TRUE, qs |-> <<>>, trace |-> <<>>]
  ELSE LET it == Head(qs)
       IN IF it.q = 0
          THEN validate_questions(Tail(qs), a)
          ELSE LET cat == IF it.category = "" THEN it.tool_cat ELSE it.category
               IN IF NeedsAnswer(it) /\ a.kind = "error"
                  THEN [ok |-> FALSE, qs |-> <<>>, trace |-> <<"answer_error">>]
                  ELSE LET rest == validate_questions(Tail(qs), a)
                           fixed == [it EXCEPT
                                       !.category = cat,
                                       !.answer = IF NeedsAnswer(it) THEN a.len ELSE @]
                       IN [ok |-> rest.ok,
                           qs |-> IF rest.ok THEN <<fixed>> \o rest.qs ELSE <<>>,
                           trace |-> IF NeedsAnswer(it)
                                     THEN <<"answer">> \o rest.trace
                                     ELSE rest.trace]

QFail(tr) == [ok |-> FALSE, qs |-> <<>>, trace |-> tr]

generate_categorized_questions(r1, r2, r3, a) ==
  IF r1.kind = "error"
  THEN QFail(<<"error">>)
  ELSE LET q1 == direct_llm_list(r1)
       IN IF q1 # <<>> /\ Len(q1) >= min_questions - question_slack
          THEN [ok |-> TRUE, qs |-> q1, trace |-> <<QuestionClass(r1)>>]
          ELSE LET q2 == IF r2.kind = "list" /\ Len(r2.qs) > Len(q1)
                         THEN r2.qs ELSE q1
                   more == Len(q2) < min_questions - question_slack
               IN IF more /\ r3.kind = "error"
                  THEN QFail(<<QuestionClass(r1), QuestionClass(r2), "error">>)
                  ELSE LET q3 == IF more THEN q2 \o direct_llm_list(r3) ELSE q2
                           tr == IF more
                                 THEN <<QuestionClass(r1), QuestionClass(r2),
                                        QuestionClass(r3)>>
                                 ELSE <<QuestionClass(r1), QuestionClass(r2)>>
                           v == validate_questions(Prefix(q3, min_questions), a)
                       IN [ok |-> v.ok,
                           qs |-> Prefix(v.qs, min_questions),
                           trace |-> tr \o v.trace]

\* The question stage reporting the number of questions asked for.
QuestionGenerator_process_asked_count(s, r1, r2, r3, a) ==
  IF s.parsed_product = None
  THEN Returned({"errors"},
                [s EXCEPT !.errors =
                   <<Msg("No product data available for question generation")>>],
                <<>>, "skipped")
  ELSE LET res == generate_categorized_questions(r1, r2, r3, a)
           failKeys == {"errors", "questions", "questions_generated",
                        "question_count"}
       IN IF ~res.ok
          THEN Returned(failKeys,
                        [s EXCEPT !.errors = <<Msg("Question generator error")>>,
                                  !.questions = Some(<<>>),
                                  !.questions_generated = FALSE,
                                  !.question_count = 0],
                        res.trace, "failed")
          ELSE IF res.qs = <<>>
          THEN Returned(failKeys,
                        [s EXCEPT !.errors =
                           <<Msg("Question generator failed to generate any questions. Check API connection.")>>,
                                  !.questions = Some(<<>>),
                                  !.questions_generated = FALSE,
                                  !.question_count = 0],
                        res.trace, "failed")
          ELSE Returned({"questions", "questions_generated", "question_count"},
                        [s EXCEPT !.questions = Some(res.qs),
                                  !.questions_generated = TRUE,
                                  !.question_count = min_questions],
                        res.trace, "ok")

QuestionGenerator_process(s, r1, r2, r3, a) ==
  IF s.parsed_product = None
  THEN Returned({"errors"},
                [s EXCEPT !.errors =
                   <<Msg("No product data available for question generation")>>],
                <<>>, "skipped")
  ELSE LET res == generate_categorized_questions(r1, r2, r3, a)
           failKeys == {"errors", "questions", "questions_generated",
                        "question_count"}
       IN IF ~res.ok
          THEN Returned(failKeys,
                        [s EXCEPT !.errors = <<Msg("Question generator error")>>,
                                  !.questions = Some(<<>>),
                                  !.questions_generated = FALSE,
                                  !.question_count = 0],
                        res.trace, "failed")
          ELSE IF res.qs = <<>>
          THEN Returned(failKeys,
                        [s EXCEPT !.errors =
                           <<Msg("Question generator failed to generate any questions. Check API connection.")>>,
                                  !.questions = Some(<<>>),
                                  !.questions_generated = FALSE,
                                  !.question_count = 0],
                        res.trace, "failed")
          ELSE Returned({"questions", "questions_generated", "question_count"},
                        [s EXCEPT !.questions = Some(res.qs),
                                  !.questions_generated = TRUE,
                                  !.question_count = Len(res.qs)],
                        res.trace, "ok")

(***************************************************************************)
(* FAQGeneratorAgent                                                       *)
(***************************************************************************)
\* q.get("category", "Informational")
CategoryKey(it) == IF it.category = "" THEN "Informational" ELSE it.category

\* The categories of qs in the order of their first appearance (the keys of
\* the dictionary categorized).
RECURSIVE CategoryOrder(_, _)
CategoryOrder(qs, seen) ==
  IF qs = <<>>
  THEN <<>>
  ELSE IF CategoryKey(Head(qs)) \in seen
       THEN CategoryOrder(Tail(qs), seen)
       ELSE <<CategoryKey(Head(qs))>>
            \o CategoryOrder(Tail(qs), seen \cup {CategoryKey(Head(qs))})

\* max(qs, key=len(answer)): the first entry with the longest answer.
RECURSIVE FirstLongest(_)
FirstLongest(qs) ==
  IF Len(qs) = 1
  THEN Head(qs)
  ELSE LET m == FirstLongest(Tail(qs))
       IN IF Head(qs).answer >= m.answer THEN Head(qs) ELSE m

\* The first pass: one entry per category while fewer than count are chosen.
RECURSIVE PickPerCategory(_, _, _, _)
PickPerCategory(cats, qs, count, selected) ==
  IF cats = <<>>
  THEN selected
  ELSE LET mine == SelectSeq(qs, LAMBDA it : CategoryKey(it) = Head(cats))
       IN PickPerCategory(Tail(cats), qs, count,
                          IF Len(selected) < count
                          THEN Append(selected, FirstLongest(mine))
                          ELSE selected)

\* list.sort(key=len(answer), reverse=True): stable, longest answer first.
RECURSIVE SortByAnswer(_)
SortByAnswer(qs) ==
  IF qs = <<>>
  THEN <<>>
  ELSE LET m == FirstLongest(qs)
           i == CHOOSE j \in 1..Len(qs) :
                  qs[j] = m /\ \A k \in 1..(j - 1) : qs[k] # m
       IN <<m>> \o SortByAnswer(SubSeq(qs, 1, i - 1) \o SubSeq(qs, i + 1, Len(qs)))

select_best_questions(qs, count) ==
  IF Len(qs) <= count
  THEN qs
  ELSE LET selected == PickPerCategory(CategoryOrder(qs, {}), qs, count, <<>>)
           remaining == SortByAnswer(
                          SelectSeq(qs, LAMBDA it : it \notin Range(selected)))
       IN Prefix(selected \o Prefix(remaining, count - Len(selected)), count)

\* FAQTemplate.apply: at most faq_count entries, a missing category inferred
\* from the question text.
FaqItem(it) ==
  [q |-> it.q, answer |-> it.answer,
   category |-> IF it.category = "" THEN it.tmpl_cat ELSE it.category]

FAQTemplate_apply(qs) ==
  LET shown == Prefix(qs, faq_count)
      items == [i \in 1..Len(shown) |-> FaqItem(shown[i])]
  IN [page_type |-> "faq", faq_items |-> items, total_questions |-> Len(items)]

\* validate_faq_structure: the page is valid with at least faq_count entries.
validate_faq_structure(page) == Len(page.faq_items) >= faq_count

\* Asked only when the page is not valid; the answer may call
\* select_best_questions with a list of its own.
FaqResponses ==
  {[kind |-> k, qs |-> <<>>] : k \in {"error", "text", "bad_tool_call"}}
  \cup {[kind |-> "tool_calls", qs |-> GenList(faq_count + 1, "complete")]}

generate_faq_page(questions, r) ==
  LET page == FAQTemplate_apply(select_best_questions(questions, faq_count))
  IN IF validate_faq_structure(page)
     THEN [ok |-> TRUE, page |-> page, trace |-> <<>>]
     ELSE IF r.kind \in {"error", "bad_tool_call"}
          THEN [ok |-> FALSE, page |-> page, trace |-> <<r.kind>>]
          ELSE IF r.kind = "tool_calls"
               THEN [ok |-> TRUE,
                     page |-> FAQTemplate_apply(
                                select_best_questions(r.qs, faq_count)),
                     trace |-> <<r.kind>>]
               ELSE [ok |-> TRUE, page |-> page, trace |-> <<r.kind>>]

\* The FAQ stage with the check of the questions left out: the empty list
\* reaches the page generation, and the exception is not caught.
FAQGenerator_process_unchecked(s, r) ==
  IF s.parsed_product = None
  THEN Returned({"errors"},
                [s EXCEPT !.errors =
                   <<Msg("Missing product data for FAQ generation. Data parser may have failed.")>>],
                <<>>, "skipped")
  ELSE IF s.questions = None \/ s.questions = Some(<<>>)
  THEN Raised(s, <<>>)
  ELSE LET res == generate_faq_page(s.questions[1], r)
       IN IF res.ok
          THEN Returned({"faq_page", "faq_generated"},
                        [s EXCEPT !.faq_page = Some(res.page),
                                  !.faq_generated = TRUE],
                        res.trace, "ok")
          ELSE Raised(s, res.trace)

FAQGenerator_process(s, r) ==
  IF s.parsed_product = None
  THEN Returned({"errors"},
                [s EXCEPT !.errors =
                   <<Msg("Missing product data for FAQ generation. Data parser may have failed.")>>],
                <<>>, "skipped")
  ELSE IF s.questions = None \/ s.questions = Some(<<>>)
  THEN Returned({"errors"},
                [s EXCEPT !.errors =
                   <<Msg("Missing questions for FAQ generation. Question generator may have failed.")>>],
                <<>>, "skipped")
  ELSE LET res == generate_faq_page(s.questions[1], r)
       IN IF res.ok
          THEN Returned({"faq_page", "faq_generated"},
                        [s EXCEPT !.faq_page = Some(res.page),
                                  !.faq_generated = TRUE],
                        res.trace, "ok")
          ELSE Returned({"errors", "faq_page", "faq_generated"},
                        [s EXCEPT !.errors = <<Msg("FAQ generation error")>>,
                                  !.faq_page = None,
                                  !.faq_generated = FALSE],
                        res.trace, "failed")

(***************************************************************************)
(* ProductPageGeneratorAgent                                               *)
(***************************************************************************)
Sections == {"overview", "ingredients", "benefits", "usage", "safety", "skin_type"}

\* analyze_page_structure: the recommended sections.
analyze_page_structure(blocks, p) ==
  {"overview"} \cup (blocks \cap {"ingredients", "benefits", "usage", "safety"})
  \cup (IF p.skin_type THEN {"skin_type"} ELSE {})

min_sections == 3

\* ProductDescriptionTemplate.apply: every section is written; a section
\* whose block is absent is written from the defaults (from_blocks names
\* the sections written from a block).
ProductDescriptionTemplate_apply(p, blocks) ==
  [page_type |-> "product_description", sections |-> Sections,
   from_blocks |-> blocks]

PageResponses ==
  {[kind |-> k] : k \in {"error", "text", "tool_calls", "bad_tool_call"}}

generate_product_page(p, blocks, r) ==
  LET page == ProductDescriptionTemplate_apply(p, blocks)
  IN IF Cardinality(analyze_page_structure(blocks, p)) < min_sections
     THEN [ok |-> r.kind \notin {"error", "bad_tool_call"}, page |-> page,
           trace |-> <<r.kind>>]
     ELSE [ok |-> TRUE, page |-> page, trace |-> <<>>]

ProductPage_process(s, r) ==
  IF s.parsed_product = None \/ s.content_blocks = None
     \/ s.content_blocks = Some({})
  THEN Returned({"errors"},
                [s EXCEPT !.errors =
                   <<Msg("Missing product data or content blocks for product page generation")>>],
                <<>>, "skipped")
  ELSE LET res == generate_product_page(s.parsed_product[1],
                                        s.content_blocks[1], r)
       IN IF res.ok
          THEN Returned({"product_page", "product_page_generated"},
                        [s EXCEPT !.product_page = Some(res.page),
                                  !.product_page_generated = TRUE],
                        res.trace, "ok")
          ELSE Raised(s, res.trace)

(***************************************************************************)
(* ComparisonGeneratorAgent                                                *)
(***************************************************************************)
ListFields == {"skin_type", "key_ingredients", "benefits"}

critical_fields == {"product_name", "key_ingredients", "benefits", "price"}

\* A Product B record gives every required field one of: "absent" (no such
\* key), "null", "value" (a value of the declared type), "scalar" (a list
\* field given as one truthy scalar), "falsy" (a list field given as a falsy
\* scalar); after the type step also "list1" (the one-element list of the
\* scalar) and "emptylist".
GoodB == [f \in RequiredFields |-> "value"]

\* A record with every key whose values are not all as declared.
OddB ==
  [GoodB EXCEPT !["price"] = "null", !["skin_type"] = "scalar",
                !["key_ingredients"] = "falsy", !["benefits"] = "null"]

\* The records tried: a good one, one with odd values, one without a
\* critical field, one without another required field.
ProductBRecords ==
  {GoodB, OddB,
   [GoodB EXCEPT !["price"] = "absent"],
   [GoodB EXCEPT !["how_to_use"] = "absent"]}

ComparisonResponses ==
  {[kind |-> k, record |-> GoodB] : k \in {"error", "bad", "not_object"}}
  \cup {[kind |-> "json", record |-> b] : b \in ProductBRecords}

\* validate_product_structure: the required fields that are not keys.
missing_fields(b) == {f \in RequiredFields : b[f] = "absent"}

\* What a response counts as in the record of the run: an object that lacks
\* a required key, one with every key and a null or ill-typed value, one
\* with every key and every value as declared ("json").
ResponseClass(r) ==
  IF r.kind # "json"
  THEN r.kind
  ELSE IF missing_fields(r.record) # {}
       THEN "json_missing_field"
       ELSE IF \E f \in RequiredFields : r.record[f] # "value"
            THEN "json_odd_values"
            ELSE "json"

\* The type step: a list field that is not a list becomes [value] when the
\* value is truthy and [] otherwise.
ensure_list(v) ==
  CASE v = "value" -> "value"
    [] v = "scalar" -> "list1"
    [] OTHER -> "emptylist"

ensure_types(b) ==
  [f \in RequiredFields |-> IF f \in ListFields THEN ensure_list(b[f]) ELSE b[f]]

BFail(tr) == [ok |-> FALSE, record |-> GoodB, trace |-> tr]

\* From the parsed record on: the required-field loop, the validation with
\* its repair call for critical fields, the type step, the final validation.
check_product_b(b, used, r3) ==
  IF b.kind # "json"
  THEN BFail(used)
  ELSE IF \E f \in RequiredFields : b.record[f] = "absent"
  THEN BFail(used)
  ELSE LET repair == missing_fields(b.record) \cap critical_fields # {}
           fixed == IF repair THEN r3 ELSE b
           tr == IF repair THEN used \o <<ResponseClass(r3)>> ELSE used
       IN IF repair /\ r3.kind # "json"
          THEN BFail(tr)
          ELSE LET typed == ensure_types(fixed.record)
               IN IF missing_fields(typed) # {}
                  THEN BFail(tr)
                  ELSE [ok |-> TRUE, record |-> typed, trace |-> tr]

generate_fictional_product_b(r1, r2, r3) ==
  IF r1.kind = "error"
  THEN BFail(<<"error">>)
  ELSE IF r1.kind = "bad"
       THEN IF r2.kind \in {"error", "bad"}
            THEN BFail(<<"bad", r2.kind>>)
            ELSE check_product_b(r2, <<"bad", ResponseClass(r2)>>, r3)
       ELSE check_product_b(r1, <<ResponseClass(r1)>>, r3)

\* ComparisonTemplate.apply: the two products, and the comparison of the
\* ingredients from its block when the block is there (from the defaults
\* otherwise).
ComparisonTemplate_apply(p1, p2, blocks) ==
  [page_type |-> "comparison", product1 |-> p1, product2 |-> p2,
   from_blocks |-> blocks \cap {"ingredients_comparison"}]

\* The template applied to the two products and the ingredients comparison.
generate_comparison_page(p, b) ==
  ComparisonTemplate_apply(p, b, {"ingredients_comparison"})

ComparisonGenerator_process(s, r1, r2, r3) ==
  IF s.parsed_product = None
  THEN Returned({"errors"},
                [s EXCEPT !.errors =
                   <<Msg("Missing product data for comparison generation")>>],
                <<>>, "skipped")
  ELSE LET res == generate_fictional_product_b(r1, r2, r3)
       IN IF res.ok
          THEN Returned({"comparison_page", "product_b_data",
                         "comparison_generated"},
                        [s EXCEPT !.comparison_page =
                                    Some(generate_comparison_page(
                                           s.parsed_product[1], res.record)),
                                  !.product_b_data = Some(res.record),
                                  !.comparison_generated = TRUE],
                        res.trace, "ok")
          ELSE Raised(s, res.trace)

(***************************************************************************)
(* JSONOutputAgent                                                         *)
(***************************************************************************)
\* The check of the pages with the FAQ page left out.
MissingPages_documents_only(s) ==
  (IF s.product_page = None THEN <<"Product page">> ELSE <<>>)
  \o (IF s.comparison_page = None THEN <<"Comparison page">> ELSE <<>>)

\* The names of the pages that are None or empty, in the order of the checks.
MissingPages(s) ==
  (IF s.faq_page = None THEN <<"FAQ page">> ELSE <<>>)
  \o (IF s.product_page = None THEN <<"Product page">> ELSE <<>>)
  \o (IF s.comparison_page = None THEN <<"Comparison page">> ELSE <<>>)

MissingMessage(missing) == [text |-> "Missing pages for JSON output", names |-> missing]

\* The output stage with the pages cleared when one of them is missing.
JSONOutput_process_clears(s) ==
  LET missing == MissingPages(s)
  IN IF missing # <<>>
     THEN Returned({"errors", "faq_page", "product_page", "comparison_page"},
                   [s EXCEPT !.errors = <<MissingMessage(missing)>>,
                             !.faq_page = None,
                             !.product_page = None,
                             !.comparison_page = None],
                   <<>>, "failed")
     ELSE Returned({"files_created", "json_output_complete"},
                   [s EXCEPT !.files_created =
                               Some({"faq", "product_page", "comparison_page"}),
                             !.json_output_complete = TRUE],
                   <<>>, "ok")

JSONOutput_process(s) ==
  LET missing == MissingPages(s)
  IN IF missing # <<>>
     THEN IF s.product_page # None /\ s.comparison_page # None
          THEN Returned({"files_created", "errors", "json_output_complete"},
                        [s EXCEPT !.files_created =
                                    Some({"product_page", "comparison_page"}),
                                  !.errors = <<MissingMessage(missing)>>,
                                  !.json_output_complete = FALSE],
                        <<>>, "failed")
          ELSE Returned({"errors"},
                        [s EXCEPT !.errors = <<MissingMessage(missing)>>],
                        <<>>, "failed")
     ELSE Returned({"files_created", "json_output_complete"},
                   [s EXCEPT !.files_created =
                               Some({"faq", "product_page", "comparison_page"}),
                             !.json_output_complete = TRUE],
                   <<>>, "ok")

(***************************************************************************)
(* The run                                                                 *)
(***************************************************************************)
Init ==
  /\ \E raw \in RawInputs : state = initial_state(raw)
  /\ step = 1
  /\ active = {EntryPoint}
  /\ status = [n \in Stages |-> "idle"]
  /\ pending = [n \in Stages |-> NoUpdate(state)]
  /\ execs = [n \in Stages |-> 0]
  /\ finished = [n \in Stages |-> 0]
  /\ calls = [n \in Stages |-> 0]
  /\ first = [n \in Stages |-> "none"]
  /\ outcome = [n \in Stages |-> "none"]
  /\ pc = "running"
  /\ raisedBy = "none"
  /\ tool = "none"
  /\ tgiven = <<>>
  /\ targs = <<>>
  /\ tout = <<>>
  /\ tprev = None

\* A triggered stage is handed the state of the beginning of the step.
Start(n) ==
  /\ pc = "running"
  /\ n \in active
  /\ status[n] = "idle"
  /\ status' = [status EXCEPT ![n] = "running"]
  /\ execs' = [execs EXCEPT ![n] = @ + 1]
  /\ UNCHANGED <<state, step, active, pending, finished, calls, first, outcome,
                 pc, raisedBy>>
  /\ UNCHANGED toolvars

\* The state with one returned update applied.
ApplyUpdate(s, u) == [k \in Slots |-> IF k \in u.keys THEN u.vals[k] ELSE s[k]]

\* A stage whose node writes what it returns into the state it was handed,
\* which the stages of the step share.
Complete_in_place(n, res) ==
  /\ pc = "running"
  /\ status[n] = "running"
  /\ status' = [status EXCEPT ![n] = IF res.raises THEN "raised" ELSE "done"]
  /\ pending' = [pending EXCEPT ![n] = [keys |-> res.keys, vals |-> res.vals]]
  /\ finished' = [finished EXCEPT ![n] = IF res.raises THEN @ ELSE @ + 1]
  /\ calls' = [calls EXCEPT ![n] = Len(res.trace)]
  /\ first' = [first EXCEPT ![n] = IF res.trace = <<>> THEN "none" ELSE res.trace[1]]
  /\ outcome' = [outcome EXCEPT ![n] = res.outcome]
  /\ state' = ApplyUpdate(state, [keys |-> res.keys, vals |-> res.vals])
  /\ UNCHANGED <<step, active, execs, pc, raisedBy>>
  /\ UNCHANGED toolvars

\* The stage's process method returns or raises.
Complete(n, res) ==
  /\ pc = "running"
  /\ status[n] = "running"
  /\ status' = [status EXCEPT ![n] = IF res.raises THEN "raised" ELSE "done"]
  /\ pending' = [pending EXCEPT ![n] = [keys |-> res.keys, vals |-> res.vals]]
  /\ finished' = [finished EXCEPT ![n] = IF res.raises THEN @ ELSE @ + 1]
  /\ calls' = [calls EXCEPT ![n] = Len(res.trace)]
  /\ first' = [first EXCEPT ![n] = IF res.trace = <<>> THEN "none" ELSE res.trace[1]]
  /\ outcome' = [outcome EXCEPT ![n] = res.outcome]
  /\ UNCHANGED <<state, step, active, execs, pc, raisedBy>>
  /\ UNCHANGED toolvars

\* A response is drawn for a backend call only when the call is issued.
Only(r) == {r}

Run_data_parser ==
  \E r1 \in ParserResponses :
    \E r2 \in IF r1.kind = "tool_calls" THEN ParserResponses ELSE Only(r1) :
      \E r3 \in IF \/ r1.kind = "bad"
                    \/ (r1.kind = "tool_calls" /\ r2.kind \notin {"error", "good"})
                 THEN ParserResponses ELSE Only(r1) :
        Complete("data_parser", DataParser_process(state, r1, r2, r3))

Run_content_blocks ==
  \E r \in BlocksResponses :
    Complete("content_blocks", ContentBlocks_process(state, r))

Run_faq_generator ==
  \E r \in FaqResponses :
    Complete("faq_generator", FAQGenerator_process(state, r))

Run_product_page_generator ==
  \E r \in PageResponses :
    Complete("product_page_generator", ProductPage_process(state, r))

Run_comparison_generator ==
  \E r1 \in ComparisonResponses :
    \E r2 \in IF r1.kind = "bad" THEN ComparisonResponses ELSE Only(r1) :
      \E r3 \in IF missing_fields(r2.record) \cap critical_fields # {}
                 THEN ComparisonResponses ELSE Only(r1) :
        Complete("comparison_generator",
                 ComparisonGenerator_process(state, r1, r2, r3))

Run_json_output ==
  Complete("json_output", JSONOutput_process(state))

Run_question_generator ==
  \E r1 \in QuestionResponses :
    \E r2 \in IF Len(r1.qs) >= min_questions - question_slack
               THEN Only(r1) ELSE QuestionResponses :
      \E r3 \in IF Len(r1.qs) >= min_questions - question_slack
                    \/ Len(r2.qs) >= min_questions - question_slack
                 THEN Only(r1) ELSE QuestionResponses :
        \E a \in AnswerResponses :
          Complete("question_generator",
                   QuestionGenerator_process(state, r1, r2, r3, a))

\* An exception that left a stage leaves app.invoke and run.
Abort ==
  /\ pc = "running"
  /\ \E n \in Stages :
       /\ status[n] = "raised"
       /\ raisedBy' = n
  /\ pc' = "raised"
  /\ UNCHANGED <<state, step, active, status, pending, execs, finished,
                 calls, first, outcome>>
  /\ UNCHANGED toolvars

StepDone == active # {} /\ \A n \in active : status[n] = "done"

\* A runtime that accepts several updates of one key in a step.
Conflict_accepted == FALSE

\* Two stages of the step returned the same key.
Conflict ==
  \E n1, n2 \in active :
    n1 # n2 /\ pending[n1].keys \cap pending[n2].keys # {}

Writer(k) == CHOOSE n \in active : k \in pending[n].keys

Merged ==
  [k \in Slots |->
     IF \E n \in active : k \in pending[n].keys
     THEN pending[Writer(k)].vals[k]
     ELSE state[k]]

MergeConflict ==
  /\ pc = "running"
  /\ StepDone
  /\ Conflict
  /\ pc' = "raised"
  /\ raisedBy' = "InvalidUpdateError"
  /\ UNCHANGED <<state, step, active, status, pending, execs, finished,
                 calls, first, outcome>>
  /\ UNCHANGED toolvars

MergeStep ==
  /\ pc = "running"
  /\ StepDone
  /\ ~Conflict
  /\ state' = Merged
  /\ step' = step + 1
  /\ active' = Triggered(active)
  /\ status' = [n \in Stages |-> "idle"]
  /\ pending' = [n \in Stages |-> NoUpdate(state')]
  /\ pc' = IF Triggered(active) = {} THEN "returned" ELSE "running"
  /\ UNCHANGED <<execs, finished, calls, first, outcome, raisedBy>>
  /\ UNCHANGED toolvars

Next ==
  \/ \E n \in Stages : Start(n)
  \/ Run_data_parser
  \/ Run_content_blocks
  \/ Run_question_generator
  \/ Run_faq_generator
  \/ Run_product_page_generator
  \/ Run_comparison_generator
  \/ Run_json_output
  \/ Abort
  \/ MergeConflict
  \/ MergeStep

Spec == Init /\ [][Next]_vars

(***************************************************************************)
(* compare_ingredients (content_blocks/ingredients_block.py)               *)
(***************************************************************************)
Ingredients == {"B", "C", "D"}

\* The longest ingredient list tried.
MaxIngredients == 2

\* Lists of ingredients, repeated entries included.
IngredientLists == UNION {[1..n -> Ingredients] : n \in 0..MaxIngredients}

Max(a, b) == IF a >= b THEN a ELSE b

\* The function without the 1 among the arguments of max.
compare_ingredients_unguarded(l1, l2) ==
  LET common == Range(l1) \cap Range(l2)
      den == Max(Len(l1), Len(l2))
  IN [raises |-> den = 0,
      common_ingredients |-> common,
      unique_to_product1 |-> Range(l1) \ Range(l2),
      unique_to_product2 |-> Range(l2) \ Range(l1),
      similarity_score |-> [num |-> Cardinality(common) * 100, den |-> den]]

\* The three lists are built from sets (their order is not modelled); the
\* score len(common) / max(len(l1), len(l2), 1) * 100 is kept as the exact
\* fraction num / den.
compare_ingredients(l1, l2) ==
  LET common == Range(l1) \cap Range(l2)
      den == Max(Max(Len(l1), Len(l2)), 1)
  IN [raises |-> den = 0,
      common_ingredients |-> common,
      unique_to_product1 |-> Range(l1) \ Range(l2),
      unique_to_product2 |-> Range(l2) \ Range(l1),
      similarity_score |-> [num |-> Cardinality(common) * 100, den |-> den]]

(***************************************************************************)
(* _calculate_price_difference (templates/template_engine.py)              *)
(***************************************************************************)
\* A price is a string, modelled as the sequence of its characters.
DigitChars == <<"0", "1", "2", "3", "4", "5", "6", "7", "8", "9">>

IsDigit(c) == c \in Range(DigitChars)

DigitValue(c) == (CHOOSE i \in 1..Len(DigitChars) : DigitChars[i] = c) - 1

\* price.replace(',', '')
RemoveCommas(s) == SelectSeq(s, LAMBDA c : c # ",")

\* The digits at the beginning of s.
RECURSIVE LeadingDigits(_)
LeadingDigits(s) ==
  IF s = <<>> \/ ~IsDigit(Head(s))
  THEN <<>>
  ELSE <<Head(s)>> \o LeadingDigits(Tail(s))

\* re.findall(r'\d+', s)[0]: the first run of digits, <<>> when there is none
\* (the index then raises).
RECURSIVE FirstDigitRun(_)
FirstDigitRun(s) ==
  IF s = <<>>
  THEN <<>>
  ELSE IF IsDigit(Head(s)) THEN LeadingDigits(s) ELSE FirstDigitRun(Tail(s))

\* float(run), for a run of digits.
RECURSIVE ToNumber(_)
ToNumber(run) ==
  IF run = <<>>
  THEN 0
  ELSE 10 * ToNumber(SubSeq(run, 1, Len(run) - 1)) + DigitValue(run[Len(run)])

\* f"{n:.0f}" for a whole number n.
RECURSIVE FormatDigits(_)
FormatDigits(n) ==
  IF n < 10
  THEN <<DigitChars[n + 1]>>
  ELSE FormatDigits(n \div 10) \o <<DigitChars[(n % 10) + 1]>>

FormatNumber(n) == IF n < 0 THEN <<"-">> \o FormatDigits(-n) ELSE FormatDigits(n)

Abs(n) == IF n < 0 THEN -n ELSE n

\* The three characters the source file holds before the number (the
\* rupee sign read in the wrong encoding).
CurrencyPrefix == <<"a-circumflex", "low-quotation-mark", "superscript-one">>

\* The function with the difference taken without abs.
calculate_price_difference_signed(price1, price2) ==
  LET run1 == FirstDigitRun(RemoveCommas(price1))
      run2 == FirstDigitRun(RemoveCommas(price2))
  IN IF run1 = <<>> \/ run2 = <<>>
     THEN <<>>
     ELSE CurrencyPrefix \o FormatNumber(ToNumber(run1) - ToNumber(run2))

\* Any exception (no digit in a price) gives the empty string.
calculate_price_difference(price1, price2) ==
  LET run1 == FirstDigitRun(RemoveCommas(price1))
      run2 == FirstDigitRun(RemoveCommas(price2))
  IN IF run1 = <<>> \/ run2 = <<>>
     THEN <<>>
     ELSE CurrencyPrefix \o FormatNumber(Abs(ToNumber(run1) - ToNumber(run2)))

\* The characters of the prices tried, and the longest price built of them.
PriceChars == {"1", ",", "x"}

MaxPriceLen == 3

Rs699 == <<"rupee", "6", "9", "9">>

Rs799 == <<"rupee", "7", "9", "9">>

ContactUs == <<"c", "o", "n", "t", "a", "c", "t", " ", "u", "s">>

Prices ==
  UNION {[1..n -> PriceChars] : n \in 0..MaxPriceLen} \cup {Rs699, Rs799, ContactUs}

(***************************************************************************)
(* TemplateEngine (templates/template_engine.py)                           *)
(***************************************************************************)
TemplateNames == {"faq", "product_description", "comparison"}

\* Template.get_fields of the three templates.
get_fields(name) ==
  CASE name = "faq" -> <<"questions", "product_data">>
    [] name = "product_description" ->
         <<"product_data", "benefits_content", "usage_content",
           "ingredients_content", "safety_content">>
    [] name = "comparison" -> <<"product1_data", "product2_data">>
    [] OTHER -> <<>>

\* The check that stops at the first field that is missing.
template_missing_first(name, data) ==
  Prefix(SelectSeq(get_fields(name), LAMBDA f : f \notin DOMAIN data), 1)

\* [field for field in required_fields if field not in data]
template_missing(name, data) ==
  SelectSeq(get_fields(name), LAMBDA f : f \notin DOMAIN data)

\* template.apply(data, content_blocks): data is a function from its keys to
\* their values, content_blocks the set of the blocks it holds.
Template_apply(name, data, blocks) ==
  CASE name = "faq" -> FAQTemplate_apply(data["questions"])
    [] name = "product_description" ->
         ProductDescriptionTemplate_apply(data["product_data"], blocks)
    [] OTHER ->
         ComparisonTemplate_apply(data["product1_data"], data["product2_data"],
                                  blocks)

TemplateError(text, names) == [text |-> text, names |-> names]

NoTemplateError == TemplateError("", <<>>)

\* What a call leaves: whether it raised and with what, the document it
\* returned, and the two argument objects as they are after the call.
TemplateResult(raises, error, doc, data, blocks) ==
  [raises |-> raises, error |-> error, doc |-> doc, data |-> data, blocks |-> blocks]

\* The engine with a template that takes its fields out of data as it
\* reads them.
apply_template_consuming(name, data, blocks) ==
  IF name \notin TemplateNames
  THEN TemplateResult(TRUE, TemplateError("Unknown template", <<name>>), None,
                      data, blocks)
  ELSE IF template_missing(name, data) # <<>>
       THEN TemplateResult(TRUE,
                           TemplateError("Missing required fields",
                                         template_missing(name, data)),
                           None, data, blocks)
       ELSE TemplateResult(FALSE, NoTemplateError,
                           Some(Template_apply(name, data, blocks)),
                           [k \in DOMAIN data \ Range(get_fields(name)) |-> data[k]],
                           blocks)

\* apply_template: no statement of the engine or of a template assigns into
\* data or content_blocks.
apply_template(name, data, blocks) ==
  IF name \notin TemplateNames
  THEN TemplateResult(TRUE, TemplateError("Unknown template", <<name>>), None,
                      data, blocks)
  ELSE IF template_missing(name, data) # <<>>
       THEN TemplateResult(TRUE,
                           TemplateError("Missing required fields",
                                         template_missing(name, data)),
                           None, data, blocks)
       ELSE TemplateResult(FALSE, NoTemplateError,
                           Some(Template_apply(name, data, blocks)),
                           data, blocks)

\* The keys a data dictionary may hold, and the values tried for them.
DataKeys ==
  {"questions", "product_data", "benefits_content", "usage_content",
   "ingredients_content", "safety_content", "product1_data", "product2_data"}

DataValue(k, v) ==
  CASE k = "questions" ->
         IF v = 1 THEN GenList(faq_count + 1, "bare")
         ELSE GenList(FewQuestions, "complete")
    [] k \in {"product_data", "product1_data"} ->
         IF v = 1 THEN FullProduct ELSE Product(TRUE, FALSE, FALSE, FALSE, FALSE)
    [] k = "product2_data" -> IF v = 1 THEN GoodB ELSE ensure_types(OddB)
    [] OTHER -> IF v = 1 THEN "block" ELSE "empty"

DataDicts == {[k \in K |-> DataValue(k, v)] : K \in SUBSET DataKeys, v \in {1, 2}}

BlockSets == {{}, BlockNames, {"benefits", "ingredients_comparison"}}

(***************************************************************************)
(* Direct calls of the pure functions                                      *)
(***************************************************************************)
ToolInit ==
  /\ state = initial_state(EmptyRecord)
  /\ step = 1
  /\ active = {EntryPoint}
  /\ status = [n \in Stages |-> "idle"]
  /\ pending = [n \in Stages |-> NoUpdate(state)]
  /\ execs = [n \in Stages |-> 0]
  /\ finished = [n \in Stages |-> 0]
  /\ calls = [n \in Stages |-> 0]
  /\ first = [n \in Stages |-> "none"]
  /\ outcome = [n \in Stages |-> "none"]
  /\ pc = "running"
  /\ raisedBy = "none"
  /\ tool = "none"
  /\ tgiven = <<>>
  /\ targs = <<>>
  /\ tout = <<>>
  /\ tprev = None

\* One function is called per behaviour, on arguments drawn for the call.
Call_compare_ingredients ==
  \E l1, l2 \in IngredientLists :
    /\ tool = "none"
    /\ tool' = "compare_ingredients"
    /\ tgiven' = <<l1, l2>>
    /\ targs' = <<l1, l2>>
    /\ tout' = compare_ingredients(l1, l2)
    /\ tprev' = None
    /\ UNCHANGED flowvars

Call_calculate_price_difference ==
  \E price1, price2 \in Prices :
    /\ tool = "none"
    /\ tool' = "_calculate_price_difference"
    /\ tgiven' = <<price1, price2>>
    /\ targs' = <<price1, price2>>
    /\ tout' = calculate_price_difference(price1, price2)
    /\ tprev' = None
    /\ UNCHANGED flowvars

\* Product B records with every key, the list fields in every form a
\* response can give them.
ListFieldForms == {"value", "scalar", "falsy", "null"}

TypedBRecords ==
  {[GoodB EXCEPT !["skin_type"] = a, !["key_ingredients"] = b, !["benefits"] = c] :
     a, b, c \in ListFieldForms}

TypedBResponses ==
  {[kind |-> "bad", record |-> GoodB]}
  \cup {[kind |-> "json", record |-> b] : b \in TypedBRecords}

\* The record the function goes on with: the first response when it parses,
\* the retry otherwise.
Call_generate_fictional_product_b ==
  \E r1 \in TypedBResponses :
    \E r2 \in IF r1.kind = "bad" THEN TypedBResponses ELSE Only(r1) :
      /\ tool = "none"
      /\ tool' = "generate_fictional_product_b"
      /\ tgiven' = <<r1, r2>>
      /\ targs' = <<r1, r2>>
      /\ tout' = generate_fictional_product_b(r1, r2, r2)
      /\ tprev' = None
      /\ UNCHANGED flowvars

(***************************************************************************)
(* Category inference.  A question text is the set of the keywords that    *)
(* occur in its lower-cased form.                                          *)
(***************************************************************************)
\* The keyword lists of FAQTemplate.apply, in the order of its cascade.
FAQTemplate_safety == <<"safe", "side effect", "irritat">>

FAQTemplate_usage == <<"how to", "use", "apply">>

FAQTemplate_purchase == <<"price", "cost", "buy">>

FAQTemplate_comparison == <<"compare", "vs", "versus">>

\* The keyword lists of categorize_question.
categorize_safety ==
  <<"side effect", "safe", "irritat", "sensitive", "warning", "risk">>

categorize_usage ==
  <<"how to use", "apply", "frequency", "when", "how often", "steps">>

categorize_purchase ==
  <<"price", "cost", "buy", "purchase", "where to buy", "available">>

categorize_comparison ==
  <<"compare", "vs", "versus", "better than", "difference", "alternative">>

\* any(word in question_text for word in words)
AnyWord(text, words) == \E i \in 1..Len(words) : words[i] \in text

\* The cascade with the usage test ahead of the safety test.
infer_category_usage_first(text) ==
  IF AnyWord(text, FAQTemplate_usage) THEN "Usage"
  ELSE IF AnyWord(text, FAQTemplate_safety) THEN "Safety"
  ELSE IF AnyWord(text, FAQTemplate_purchase) THEN "Purchase"
  ELSE IF AnyWord(text, FAQTemplate_comparison) THEN "Comparison"
  ELSE "Informational"

\* The if/elif cascade of FAQTemplate.apply over the question text.
infer_category(text) ==
  IF AnyWord(text, FAQTemplate_safety) THEN "Safety"
  ELSE IF AnyWord(text, FAQTemplate_usage) THEN "Usage"
  ELSE IF AnyWord(text, FAQTemplate_purchase) THEN "Purchase"
  ELSE IF AnyWord(text, FAQTemplate_comparison) THEN "Comparison"
  ELSE "Informational"

\* category = qa.get("category"); if not category: the cascade.
FAQTemplate_category(category, text) ==
  IF category = "" THEN infer_category(text) ELSE category

categorize_question(text) ==
  IF AnyWord(text, categorize_safety) THEN "Safety"
  ELSE IF AnyWord(text, categorize_usage) THEN "Usage"
  ELSE IF AnyWord(text, categorize_purchase) THEN "Purchase"
  ELSE IF AnyWord(text, categorize_comparison) THEN "Comparison"
  ELSE "Informational"

Keywords ==
  Range(FAQTemplate_safety) \cup Range(FAQTemplate_usage)
  \cup Range(FAQTemplate_purchase) \cup Range(FAQTemplate_comparison)
  \cup Range(categorize_safety) \cup Range(categorize_usage)
  \cup Range(categorize_purchase) \cup Range(categorize_comparison)

\* The most keywords placed in one question text.
MaxKeywords == 2

\* A text that holds a phrase holds the keywords inside the phrase.
Substrings(k) ==
  CASE k = "how to use" -> {"how to use", "how to", "use"}
    [] k = "where to buy" -> {"where to buy", "buy"}
    [] OTHER -> {k}

\* The texts with at most n keywords placed in them.
RECURSIVE TextsWith(_)
TextsWith(n) ==
  IF n = 0
  THEN {{}}
  ELSE LET shorter == TextsWith(n - 1)
       IN shorter \cup {t \cup Substrings(k) : t \in shorter, k \in Keywords}

QuestionTexts == TextsWith(MaxKeywords)

\* The category an entry arrives with: none, one of the five, another one.
GivenCategories == {"", "Purchase", "Other"}

Call_FAQTemplate_category ==
  \E c \in GivenCategories, text \in QuestionTexts :
    /\ tool = "none"
    /\ tool' = "FAQTemplate_category"
    /\ tgiven' = <<c, text>>
    /\ targs' = <<c, text>>
    /\ tout' = FAQTemplate_category(c, text)
    /\ tprev' = None
    /\ UNCHANGED flowvars

Call_categorize_question ==
  \E text \in QuestionTexts :
    /\ tool = "none"
    /\ tool' = "categorize_question"
    /\ tgiven' = <<text>>
    /\ targs' = <<text>>
    /\ tout' = categorize_question(text)
    /\ tprev' = None
    /\ UNCHANGED flowvars

(***************************************************************************)
(* select_best_questions called on its own                                 *)
(***************************************************************************)
\* The entries the lists are made of: two categories, an entry without a
\* category, answers of two lengths.
QuestionPool ==
  {Item(1, "Safety", 10, "Safety"), Item(2, "Safety", 20, "Safety"),
   Item(3, "Usage", 10, "Usage"), Item(4, "", 10, "Informational")}

\* The longest list of questions given to select_best_questions.
MaxQuestions == 3

\* The lists of at most n entries; an entry may occur more than once.
RECURSIVE ListsUpTo(_)
ListsUpTo(n) ==
  IF n = 0
  THEN {<<>>}
  ELSE LET shorter == ListsUpTo(n - 1)
       IN shorter \cup {Append(l, it) : l \in shorter, it \in QuestionPool}

SelectCounts == {1, 2}

Call_select_best_questions ==
  \E qs \in ListsUpTo(MaxQuestions), count \in SelectCounts :
    /\ tool = "none"
    /\ tool' = "select_best_questions"
    /\ tgiven' = <<qs, count>>
    /\ targs' = <<qs, count>>
    /\ tout' = select_best_questions(qs, count)
    /\ tprev' = None
    /\ UNCHANGED flowvars

CallOutcome(r) == [raises |-> r.raises, error |-> r.error, doc |-> r.doc]

Call_apply_template ==
  \E name \in TemplateNames \cup {"unknown"}, data \in DataDicts,
     blocks \in BlockSets :
    LET r == apply_template(name, data, blocks)
    IN /\ tool = "none"
       /\ tool' = "apply_template"
       /\ tgiven' = <<name, data, blocks>>
       /\ targs' = <<name, r.data, r.blocks>>
       /\ tout' = CallOutcome(r)
       /\ tprev' = None
       /\ UNCHANGED flowvars

\* The second call, on the objects the first call was given.
Repeat_apply_template ==
  LET r == apply_template(targs[1], targs[2], targs[3])
  IN /\ tool = "apply_template"
     /\ tprev = None
     /\ tprev' = Some(tout)
     /\ tout' = CallOutcome(r)
     /\ targs' = <<targs[1], r.data, r.blocks>>
     /\ UNCHANGED <<tool, tgiven>>
     /\ UNCHANGED flowvars

ToolNext ==
  \/ Call_compare_ingredients
  \/ Call_calculate_price_difference
  \/ Call_apply_template
  \/ Repeat_apply_template
  \/ Call_generate_fictional_product_b
  \/ Call_FAQTemplate_category
  \/ Call_categorize_question
  \/ Call_select_best_questions

ToolSpec == ToolInit /\ [][ToolNext]_vars

(***************************************************************************)
(* Properties                                                              *)
(***************************************************************************)
RunOver == pc \in {"returned", "raised"}

NoStageRaised == \A n \in Stages : status[n] # "raised"

Started(n) == status[n] # "idle" \/ execs[n] > 0

\* The predecessors of each stage, as the edge list gives them.
StagePredecessors(n) ==
  CASE n = "content_blocks" -> {"data_parser"}
    [] n = "question_generator" -> {"data_parser"}
    [] n = "faq_generator" -> {"content_blocks", "question_generator"}
    [] n = "product_page_generator" -> {"content_blocks"}
    [] n = "comparison_generator" -> {"content_blocks"}
    [] n = "json_output" ->
         {"faq_generator", "product_page_generator", "comparison_generator"}
    [] OTHER -> {}

\* C1: a stage that has started has all its predecessor stages completed,
\* and none of them is running.
C1_StartsAfterPredecessors ==
  \A n \in Stages :
    Started(n) =>
      \A p \in StagePredecessors(n) : finished[p] >= 1 /\ status[p] # "running"

C1_Witness ==
  /\ status["json_output"] = "running"
  /\ \A p \in StagePredecessors("json_output") : finished[p] = 1

\* C2: when the run is over and no stage has raised, every stage has
\* executed exactly once.
C2_EachStageExactlyOnce ==
  (RunOver /\ NoStageRaised) => \A n \in Stages : execs[n] = 1

\* C3: run never raises.
C3_RunNeverRaises == pc # "raised"

\* C4: an entry of errors stays in errors.
C4_ErrorsAppendOnly ==
  [][\A m \in Range(state.errors) : m \in Range(state'.errors)]_vars

ComparisonFailed ==
  /\ status["comparison_generator"] = "raised"
  /\ first["comparison_generator"] \in {"bad", "json_missing_field"}

\* The messages of the code that mention the comparison.
NamesComparison(m) ==
  \/ m.text = "Missing product data for comparison generation"
  \/ "Comparison page" \in Range(m.names)

\* C5: when the comparison stage has failed for good, the run returns with
\* the FAQ page and the product page, no comparison page, and one error
\* that names the comparison stage.
C5_ComparisonFailureContained ==
  (ComparisonFailed /\ RunOver) =>
    /\ pc = "returned"
    /\ state.faq_page # None
    /\ state.product_page # None
    /\ state.comparison_page = None
    /\ Len(state.errors) = 1
    /\ NamesComparison(state.errors[1])

QuestionGenerationFailed == outcome["question_generator"] = "failed"

QuestionErrors ==
  {Msg("Question generator error"),
   Msg("Question generator failed to generate any questions. Check API connection.")}

OutputSlots(n) ==
  CASE n = "data_parser" -> {"parsed_product", "data_parsed"}
    [] n = "content_blocks" -> {"content_blocks", "content_blocks_generated"}
    [] n = "question_generator" -> {"questions", "questions_generated"}
    [] n = "faq_generator" -> {"faq_page", "faq_generated"}
    [] n = "product_page_generator" -> {"product_page", "product_page_generated"}
    [] n = "comparison_generator" -> {"comparison_page", "comparison_generated"}
    [] OTHER -> {}

C7_SkipContinues ==
  \A n \in Stages :
    outcome[n] = "skipped" =>
      /\ calls[n] = 0
      /\ \A k \in OutputSlots(n) : state[k] = initial_state(EmptyRecord)[k]
      /\ (RunOver /\ NoStageRaised) =>
           pc = "returned" /\ finished["json_output"] = 1

\* C8: no two stages of one step return the same key.
C8_DisjointWrites ==
  \A n1, n2 \in active :
    (n1 # n2 /\ status[n1] = "done" /\ status[n2] = "done") =>
      pending[n1].keys \cap pending[n2].keys = {}

ExtractionStages == {"data_parser", "question_generator", "comparison_generator"}

\* C9: an extraction issues at most two backend calls.
C9_AtMostTwoCalls == \A n \in ExtractionStages : calls[n] <= 2

\* C10: when the first Product B response parses and lacks a required
\* field, one repair call follows (two calls in all), and no record without
\* the field is returned.
C10_OneRepairCall ==
  (first["comparison_generator"] = "json_missing_field"
   /\ status["comparison_generator"] \in {"done", "raised"}) =>
    /\ calls["comparison_generator"] = 2
    /\ status["comparison_generator"] = "done" =>
         missing_fields(pending["comparison_generator"].vals.product_b_data[1]) = {}

\* C11: a first response that satisfies the schema is returned after exactly
\* one backend call: a Product B object with the seven required fields as
\* declared, a list of min_questions entries with question, category and
\* answer.
C11_ValidFirstResponseOneCall ==
  /\ (first["comparison_generator"] = "json"
      /\ status["comparison_generator"] \in {"done", "raised"}) =>
       /\ status["comparison_generator"] = "done"
       /\ calls["comparison_generator"] = 1
       /\ pending["comparison_generator"].vals.product_b_data = Some(GoodB)
  /\ (first["question_generator"] = "list_valid"
      /\ status["question_generator"] \in {"done", "raised"}) =>
       /\ status["question_generator"] = "done"
       /\ outcome["question_generator"] = "ok"
       /\ calls["question_generator"] = 1
       /\ pending["question_generator"].vals.questions =
            Some(GenList(min_questions, "complete"))

C11_Witness ==
  /\ first["question_generator"] = "list_valid"
  /\ calls["question_generator"] = 1
  /\ first["comparison_generator"] = "json"
  /\ status["comparison_generator"] = "done"
  /\ calls["comparison_generator"] = 1

\* C12: a record an extraction stage has written is schema-complete: with
\* questions_generated every entry of questions has a non-empty question,
\* category and answer; with comparison_generated product_b_data has the
\* seven required fields present and not null.
C12_WrittenRecordsSchemaComplete ==
  /\ state.questions_generated =>
       \A i \in 1..Len(state.questions[1]) : SchemaComplete(state.questions[1][i])
  /\ state.comparison_generated =>
       \A f \in RequiredFields :
         state.product_b_data[1][f] \notin {"absent", "null"}

\* The state after the updates of the stages of a step applied in the order
\* in which the stages completed.
RECURSIVE ApplyInOrder(_, _)
ApplyInOrder(order, s) ==
  IF order = <<>>
  THEN s
  ELSE ApplyInOrder(Tail(order), ApplyUpdate(s, pending[Head(order)]))

CompletionOrders(S) ==
  {o \in [1..Cardinality(S) -> S] : \A i, j \in 1..Cardinality(S) : o[i] = o[j] => i = j}

\* C13: with the result of every stage fixed, the state a step leaves (and
\* so the state run returns) is the same for every order in which the
\* stages of the step completed.
C13_OrderIndependentState ==
  [][step' = step + 1 =>
       \A o \in CompletionOrders(active) : state' = ApplyInOrder(o, state)]_vars

C13_Witness ==
  /\ step = 4
  /\ state.faq_generated
  /\ state.product_page_generated
  /\ state.comparison_generated

\* C14: a stage reads a state in which the writes of its predecessors are
\* applied in full (slot and flag together) and no write of a stage of its
\* own step is visible: the state changes only between steps, and the
\* output slots of the stages of the current step still hold their initial
\* values while any of them runs.
C14_SnapshotReads ==
  /\ \A n \in Stages :
       status[n] = "running" =>
         \A p \in StagePredecessors(n) :
           /\ status[p] = "idle"
           /\ outcome[p] = "ok" =>
                \A k \in OutputSlots(p) : state[k] # initial_state(EmptyRecord)[k]
  /\ pc = "running" =>
       \A n \in active :
         \A k \in OutputSlots(n) : state[k] = initial_state(EmptyRecord)[k]

C14_Witness ==
  /\ status["faq_generator"] = "running"
  /\ outcome["content_blocks"] = "ok"
  /\ outcome["question_generator"] = "ok"
  /\ state.content_blocks # None
  /\ state.questions_generated
  /\ status["comparison_generator"] = "done"
  /\ "comparison_page" \in pending["comparison_generator"].keys
  /\ state.comparison_page = None

DocumentSlots ==
  {"parsed_product", "content_blocks", "questions", "faq_page", "product_page",
   "comparison_page", "product_b_data", "files_created"}

CompletionFlags ==
  {"data_parsed", "content_blocks_generated", "questions_generated",
   "faq_generated", "product_page_generated", "comparison_generated",
   "json_output_complete"}

\* None, the empty list and the empty dictionary are empty.
NonEmpty(k, v) ==
  /\ v # None
  /\ k = "questions" => v[1] # <<>>
  /\ k \in {"content_blocks", "files_created"} => v[1] # {}

\* C15: a document slot that holds a non-empty value is never reset to an
\* empty one, and a completion flag that is true never becomes false.
C15_SlotsNeverCleared ==
  [][/\ \A k \in DocumentSlots : NonEmpty(k, state[k]) => NonEmpty(k, state'[k])
     /\ \A k \in CompletionFlags : state[k] => state'[k]]_vars

C15_Witness ==
  /\ pc = "returned"
  /\ outcome["json_output"] = "failed"
  /\ \A k \in {"parsed_product", "content_blocks", "questions", "product_page",
                "comparison_page", "product_b_data", "files_created"} :
       NonEmpty(k, state[k])
  /\ state.faq_page = None

\* The most backend calls one stage can issue: three list calls and one
\* answer call for each of min_questions entries.
MaxStageCalls == 3 + min_questions

\* C16: a run ends after a bounded number of backend calls with every stage
\* ended as done, failed or skipped, and with json_output executed.
C16_EndsThroughOutput ==
  /\ \A n \in Stages : calls[n] <= MaxStageCalls
  /\ RunOver =>
       /\ execs["json_output"] = 1
       /\ \A n \in Stages : outcome[n] \in {"ok", "failed", "skipped"}

\* C17 (as stated): compare_ingredients returns the common and the unique
\* ingredients as sets and the score |A n B| / max(|A|, |B|, 1), where |.|
\* counts distinct ingredients.
C17_SimilarityFraction ==
  tool = "compare_ingredients" =>
    LET A == Range(tgiven[1])
        B == Range(tgiven[2])
    IN /\ ~tout.raises
       /\ tout.common_ingredients = A \cap B
       /\ tout.unique_to_product1 = A \ B
       /\ tout.unique_to_product2 = B \ A
       /\ tout.similarity_score.num * Max(Max(Cardinality(A), Cardinality(B)), 1)
            = Cardinality(A \cap B) * tout.similarity_score.den

\* C17 (amended): the three sets are as stated, and the score is the
\* percentage 100 * |A n B| / max(len(A), len(B), 1), where len counts the
\* entries of the list, repeated ones included: 0 without an error for two
\* empty lists, 50 for [B, C] and [C, D].
C17_SimilarityPercentOfLength ==
  tool = "compare_ingredients" =>
    LET A == Range(tgiven[1])
        B == Range(tgiven[2])
        longest == Max(Max(Len(tgiven[1]), Len(tgiven[2])), 1)
    IN /\ ~tout.raises
       /\ tout.common_ingredients = A \cap B
       /\ tout.unique_to_product1 = A \ B
       /\ tout.unique_to_product2 = B \ A
       /\ tout.similarity_score.num * longest
            = 100 * Cardinality(A \cap B) * tout.similarity_score.den
       /\ (tgiven[1] = <<>> /\ tgiven[2] = <<>>) => tout.similarity_score.num = 0
       /\ (tgiven = <<(<<"B", "C">>), (<<"C", "D">>)>>) =>
            /\ tout.common_ingredients = {"C"}
            /\ tout.unique_to_product1 = {"B"}
            /\ tout.unique_to_product2 = {"D"}
            /\ tout.similarity_score.num = 50 * tout.similarity_score.den

C17_Witness ==
  /\ tool = "compare_ingredients"
  /\ tgiven = <<(<<"B", "C">>), (<<"C", "D">>)>>
  /\ tout.common_ingredients = {"C"}

HasDigit(price) == \E i \in 1..Len(price) : IsDigit(price[i])

\* The texts that are a zero or a formatted zero.
ZeroTexts == {<<"0">>, CurrencyPrefix \o <<"0">>, <<"rupee", "0">>}

\* C18 (as stated): with digits in both prices the returned amount is the
\* absolute difference of the first run of digits of each price, the same
\* with the arguments swapped; with no digit in one of them the result is a
\* marker that is no zero and holds no digit.
C18_DeltaOfFirstDigitRuns ==
  tool = "_calculate_price_difference" =>
    IF HasDigit(tgiven[1]) /\ HasDigit(tgiven[2])
    THEN /\ ToNumber(FirstDigitRun(tout))
              = Abs(ToNumber(FirstDigitRun(tgiven[1]))
                    - ToNumber(FirstDigitRun(tgiven[2])))
         /\ tout = calculate_price_difference(tgiven[2], tgiven[1])
    ELSE tout \notin ZeroTexts /\ ~HasDigit(tout)

\* C18 (amended): with digits in both prices the result is the currency
\* prefix followed by the absolute difference of the first runs of digits
\* of the prices with their commas removed, the same with the arguments
\* swapped; with no digit in one of them the result is the empty string.
C18_DeltaAfterCommaRemoval ==
  tool = "_calculate_price_difference" =>
    IF HasDigit(tgiven[1]) /\ HasDigit(tgiven[2])
    THEN /\ SubSeq(tout, 1, Len(CurrencyPrefix)) = CurrencyPrefix
         /\ ~HasDigit(CurrencyPrefix)
         /\ SubSeq(tout, Len(CurrencyPrefix) + 1, Len(tout)) = FirstDigitRun(tout)
         /\ ToNumber(FirstDigitRun(tout))
              = Abs(ToNumber(FirstDigitRun(RemoveCommas(tgiven[1])))
                    - ToNumber(FirstDigitRun(RemoveCommas(tgiven[2]))))
         /\ tout = calculate_price_difference(tgiven[2], tgiven[1])
         /\ (tgiven = <<Rs699, Rs799>>) => tout = CurrencyPrefix \o <<"1", "0", "0">>
    ELSE /\ tout = <<>>
         /\ tout \notin ZeroTexts

C18_Witness ==
  /\ tool = "_calculate_price_difference"
  /\ tgiven = <<Rs799, Rs699>>
  /\ tout = CurrencyPrefix \o <<"1", "0", "0">>

C20_MissingFieldsNamed ==
  tool = "apply_template" =>
    LET name == tgiven[1]
        absent == Range(get_fields(name)) \ DOMAIN tgiven[2]
    IN /\ name \notin TemplateNames =>
            /\ tout.raises
            /\ tout.doc = None
            /\ name \in Range(tout.error.names)
       /\ (name \in TemplateNames /\ absent # {}) =>
            /\ tout.raises
            /\ tout.doc = None
            /\ Range(tout.error.names) = absent
       /\ ~tout.raises =>
            /\ tout.doc # None
            /\ name \in TemplateNames
            /\ Range(get_fields(name)) \subseteq DOMAIN tgiven[2]

C20_Witness ==
  /\ tool = "apply_template"
  /\ tgiven[1] = "product_description"
  /\ Cardinality(Range(get_fields("product_description")) \ DOMAIN tgiven[2]) = 2
  /\ tout.raises
  /\ Len(tout.error.names) = 2

\* C21: the product page holds no section for a content block that is not
\* in content_blocks.
C21_NoPlaceholderSections ==
  state.product_page_generated =>
    \A b \in BlockNames \ state.content_blocks[1] :
      b \notin state.product_page[1].sections

\* C22: in the record generate_fictional_product_b returns, a list field
\* that arrived as a list is unchanged, and one that arrived as a scalar
\* that is not null is the one-element list of that scalar.
C22_ScalarPromotedToList ==
  (tool = "generate_fictional_product_b" /\ tout.ok) =>
    LET arrived == IF tgiven[1].kind = "json" THEN tgiven[1].record
                   ELSE tgiven[2].record
    IN \A f \in ListFields :
         /\ tout.record[f] \in {"value", "list1", "emptylist"}
         /\ arrived[f] = "value" => tout.record[f] = "value"
         /\ arrived[f] \in {"scalar", "falsy"} => tout.record[f] = "list1"

\* The categories with a keyword set, in the order of priority.
CascadeOrder == <<"Safety", "Usage", "Purchase", "Comparison">>

TemplateKeywordSet(c) ==
  CASE c = "Safety" -> Range(FAQTemplate_safety)
    [] c = "Usage" -> Range(FAQTemplate_usage)
    [] c = "Purchase" -> Range(FAQTemplate_purchase)
    [] c = "Comparison" -> Range(FAQTemplate_comparison)

\* C23: an FAQ entry without a category gets the first category, in the
\* order Safety, Usage, Purchase, Comparison, with a keyword in the question
\* text, and Informational only when no keyword set matches; an entry with
\* a category keeps it.
C23_FirstMatchingCategory ==
  tool = "FAQTemplate_category" =>
    LET given == tgiven[1]
        text == tgiven[2]
        matching == {i \in 1..Len(CascadeOrder) :
                       TemplateKeywordSet(CascadeOrder[i]) \cap text # {}}
    IN /\ given # "" => tout = given
       /\ (given = "" /\ matching = {}) => tout = "Informational"
       /\ (given = "" /\ matching # {}) =>
            \E i \in matching :
              /\ tout = CascadeOrder[i]
              /\ \A j \in matching : i <= j

\* An entry without a category whose text holds a usage keyword and a
\* safety keyword has been categorized.
C23_Witness ==
  /\ tool = "FAQTemplate_category"
  /\ tgiven[1] = ""
  /\ tgiven[2] = {"use", "safe"}
  /\ tout = "Safety"

\* C24: a record whose required fields are all present, not null and
\* well-typed is parsed directly, with no backend call, with or without the
\* side_effects key; the stage writes data_parsed and the record's fields.
C24_CompleteRecordParsedDirectly ==
  LET raw == state.raw_product_data
  IN (/\ ~raw.empty
      /\ raw.required = "ok"
      /\ raw.typed
      /\ status["data_parser"] \in {"done", "raised"}) =>
       /\ status["data_parser"] = "done"
       /\ calls["data_parser"] = 0
       /\ pending["data_parser"].vals.data_parsed
       /\ pending["data_parser"].vals.parsed_product = Some(raw.content)

\* C26: every completion flag implies its slot: data_parsed a parsed
\* product, content_blocks_generated a non-empty set of blocks,
\* questions_generated a non-empty list whose length is question_count,
\* each page flag its page, json_output_complete all three pages.
C26_FlagImpliesSlot ==
  /\ state.data_parsed => state.parsed_product # None
  /\ state.content_blocks_generated =>
       /\ state.content_blocks # None
       /\ state.content_blocks[1] # {}
  /\ state.questions_generated =>
       /\ state.questions # None
       /\ state.questions[1] # <<>>
       /\ state.question_count = Len(state.questions[1])
  /\ state.faq_generated => state.faq_page # None
  /\ state.product_page_generated => state.product_page # None
  /\ state.comparison_generated => state.comparison_page # None
  /\ state.json_output_complete =>
       /\ state.faq_page # None
       /\ state.product_page # None
       /\ state.comparison_page # None

\* Every flag is set, with a list of questions shorter than min_questions.
C26_Witness ==
  /\ state.data_parsed
  /\ state.content_blocks_generated
  /\ state.questions_generated
  /\ state.question_count < min_questions
  /\ state.faq_generated
  /\ state.product_page_generated
  /\ state.comparison_generated
  /\ state.json_output_complete

\* C27: in the state a run returns, errors is empty exactly when
\* json_output_complete is set, and that is exactly when the three pages
\* were produced.
C27_ErrorsEmptyIffComplete ==
  pc = "returned" =>
    /\ state.errors = <<>> <=> state.json_output_complete
    /\ state.json_output_complete <=>
         (/\ state.faq_page # None
          /\ state.product_page # None
          /\ state.comparison_page # None)

C27_WitnessComplete ==
  pc = "returned" /\ state.json_output_complete /\ state.errors = <<>>

\* C28: with faq_generated set the FAQ page holds exactly faq_count
\* entries, and total_questions is their number.
C28_FaqPageHasFiveItems ==
  state.faq_generated =>
    /\ state.faq_page # None
    /\ Len(state.faq_page[1].faq_items) = faq_count
    /\ state.faq_page[1].total_questions = Len(state.faq_page[1].faq_items)

\* The entries of out are entries of qs, no entry of qs taken twice.
SelectedFrom(out, qs) ==
  \E f \in [1..Len(out) -> 1..Len(qs)] :
    /\ \A i \in 1..Len(out) : qs[f[i]] = out[i]
    /\ \A i, j \in 1..Len(out) : f[i] = f[j] => i = j

CategoriesOf(qs) == {CategoryKey(qs[i]) : i \in 1..Len(qs)}

\* C29: select_best_questions(questions, count) returns exactly
\* min(count, number of questions) entries, each an entry of the input, none
\* taken twice; with more than count entries in at most count categories
\* every category of the input is in the selection.
C29_SelectsMinCountEntries ==
  tool = "select_best_questions" =>
    LET qs == tgiven[1]
        count == tgiven[2]
    IN /\ Len(tout) = IF count < Len(qs) THEN count ELSE Len(qs)
       /\ SelectedFrom(tout, qs)
       /\ (Len(qs) > count /\ Cardinality(CategoriesOf(qs)) <= count) =>
            CategoriesOf(tout) = CategoriesOf(qs)

\* C30: generate_all_blocks returns a non-empty set of blocks: with a
\* non-empty field it returns, without a backend call, exactly the blocks
\* whose field is non-empty; with no non-empty field it returns all four.
C30_BlocksOfFilledFields ==
  (/\ state.parsed_product # None
   /\ status["content_blocks"] \in {"done", "raised"}) =>
    LET p == state.parsed_product[1]
        filled == {b \in BlockNames :
                     \/ b = "benefits" /\ p.benefits
                     \/ b = "usage" /\ p.how_to_use
                     \/ b = "ingredients" /\ p.key_ingredients
                     \/ b = "safety" /\ p.side_effects}
        written == pending["content_blocks"].vals.content_blocks
    IN /\ status["content_blocks"] = "done"
       /\ written # None
       /\ written[1] # {}
       /\ filled # {} => (written[1] = filled /\ calls["content_blocks"] = 0)
       /\ filled = {} => written[1] = BlockNames

====
